---------------------------- MODULE Spec2Model ----------------------------
(***************************************************************************)
(* A model of bloomfilter.py: the BloomFilter class, its constructor, its  *)
(* sizing class methods get_size / get_hash_count, and add / check.        *)
(*                                                                         *)
(* Numbers.  TLC integers are 32-bit, so                                   *)
(*   - a 32-bit hash word is a pair <<hi, lo>> of 16-bit limbs and the     *)
(*     MurmurHash3 arithmetic (mod 2^32) is done limb by limb;             *)
(*   - the float fp_prob is held in thousandths (50 stands for 0.05), and  *)
(*     math.log is held in millionths.                                     *)
(***************************************************************************)
EXTENDS Integers, Sequences, FiniteSets, TLC

(***************************************************************************)
(* Bounds of the model.                                                    *)
(***************************************************************************)
\* items_count is drawn from -NegItemsCount .. MaxItemsCount
MaxItemsCount == 20
NegItemsCount == 1
\* consecutive calls add(x) of one x are counted up to MaxRepeat
MaxRepeat == 3
\* the hashes of seeds 0 .. MaxSeed are tabulated (hash_count stays below it)
MaxSeed == 7
\* threads construct filters for items_count in 1 .. MaxConcItemsCount
MaxConcItemsCount == 2

(***************************************************************************)
(* The items offered to add and check, as Python str, and the bytes that   *)
(* mmh3.hash hashes for each (its UTF-8 encoding).                         *)
(***************************************************************************)
Items == {"abound", "abounds", "abundance", "abundant"}

Utf8(item) ==
    CASE item = "abound"    -> <<97, 98, 111, 117, 110, 100>>
      [] item = "abounds"   -> <<97, 98, 111, 117, 110, 100, 115>>
      [] item = "abundance" -> <<97, 98, 117, 110, 100, 97, 110, 99, 101>>
      [] item = "abundant"  -> <<97, 98, 117, 110, 100, 97, 110, 116>>

(***************************************************************************)
(* 32-bit words as <<hi, lo>>, each limb in 0 .. 65535.                    *)
(***************************************************************************)
Limb == 65536

RECURSIVE Pow2(_)
Pow2(r) == IF r = 0 THEN 1 ELSE 2 * Pow2(r - 1)

RECURSIVE Xor16(_, _)
Xor16(a, b) ==
    IF a = 0 THEN b
    ELSE IF b = 0 THEN a
    ELSE (((a % 2) + (b % 2)) % 2) + 2 * Xor16(a \div 2, b \div 2)

Xor32(a, b) == <<Xor16(a[1], b[1]), Xor16(a[2], b[2])>>

\* the full product of two limbs, as a word; y is split in bytes so that no
\* intermediate product leaves 31 bits
Mul16(x, y) ==
    LET t0 == x * (y % 256)
        t1 == x * (y \div 256)
        s  == t0 + (t1 % 256) * 256
    IN  <<((s \div Limb) + (t1 \div 256)) % Limb, s % Limb>>

\* (a * b) mod 2^32
Mul32(a, b) ==
    LET low   == Mul16(a[2], b[2])
        cross == (Mul16(a[1], b[2])[2] + Mul16(a[2], b[1])[2]) % Limb
    IN  <<(low[1] + cross) % Limb, low[2]>>

\* (a + b) mod 2^32
Add32(a, b) ==
    LET lo == a[2] + b[2]
    IN  <<(a[1] + b[1] + (lo \div Limb)) % Limb, lo % Limb>>

\* rotate left by r, 0 < r < 16
Rotl32(a, r) ==
    <<((a[1] * Pow2(r)) % Limb) + (a[2] \div Pow2(16 - r)),
      ((a[2] * Pow2(r)) % Limb) + (a[1] \div Pow2(16 - r))>>

\* logical shift right by r, 0 < r <= 16
Shr32(a, r) ==
    <<a[1] \div Pow2(r), (a[2] \div Pow2(r)) + (a[1] % Pow2(r)) * Pow2(16 - r)>>

\* the two's-complement value of a word: mmh3.hash returns a signed int
ToSigned(a) ==
    IF a[1] >= 32768 THEN (a[1] - Limb) * Limb + a[2] ELSE a[1] * Limb + a[2]

(***************************************************************************)
(* MurmurHash3_x86_32, the function behind mmh3.hash(key, seed).           *)
(***************************************************************************)
MurmurC1 == <<52382, 11601>>     \* 0xcc9e2d51
MurmurC2 == <<7047, 13715>>      \* 0x1b873593
MurmurN  == <<58964, 27492>>     \* 0xe6546b64
FmixM1   == <<34283, 51819>>     \* 0x85ebca6b
FmixM2   == <<49842, 44597>>     \* 0xc2b2ae35

\* k *= c1; k = rotl(k, 15); k *= c2
MixK(k) == Mul32(Rotl32(Mul32(k, MurmurC1), 15), MurmurC2)

\* the b-th four-byte block of data, little-endian (b counts from 0)
Block(data, b) ==
    <<data[4 * b + 4] * 256 + data[4 * b + 3],
      data[4 * b + 2] * 256 + data[4 * b + 1]>>

\* h after the blocks 0 .. b-1 have been mixed in
RECURSIVE Body(_, _, _)
Body(data, seed, b) ==
    IF b = 0 THEN <<0, seed>>
    ELSE LET h1 == Xor32(Body(data, seed, b - 1), MixK(Block(data, b - 1)))
         IN  Add32(Mul32(Rotl32(h1, 13), <<0, 5>>), MurmurN)

\* the 0 .. 3 bytes that follow the last whole block
TailMix(data, h) ==
    LET nb == Len(data) \div 4
        r  == Len(data) % 4
        k  == <<IF r >= 3 THEN data[4 * nb + 3] ELSE 0,
                (IF r >= 2 THEN data[4 * nb + 2] * 256 ELSE 0)
                  + (IF r >= 1 THEN data[4 * nb + 1] ELSE 0)>>
    IN  IF r = 0 THEN h ELSE Xor32(h, MixK(k))

Fmix32(h) ==
    LET h1 == Mul32(Xor32(h, Shr32(h, 16)), FmixM1)
        h2 == Mul32(Xor32(h1, Shr32(h1, 13)), FmixM2)
    IN  Xor32(h2, Shr32(h2, 16))

Murmur3(data, seed) ==
    LET h == TailMix(data, Body(data, seed, Len(data) \div 4))
    IN  ToSigned(Fmix32(Xor32(h, <<0, Len(data)>>)))

(***************************************************************************)
(* Floats.  A probability p is held as the integer 1000 * p; LogMicro is   *)
(* math.log(p) in millionths, for the probabilities the model constructs   *)
(* filters with (math.log raises ValueError for p <= 0, see LogRaises).    *)
(***************************************************************************)
FpProbs == {-500, 0, 10, 50, 500, 900, 1000, 1500}

LogMicro(p) ==
    CASE p = 10   -> -4605170
      [] p = 50   -> -2995732
      [] p = 500  -> -693147
      [] p = 900  -> -105361
      [] p = 1000 -> 0
      [] p = 1500 -> 405465

LogRaises(p) == p <= 0

\* math.log(2) and math.log(2)**2, in millionths
Ln2Micro == 693147
Ln2SqMicro == 480453

Abs(a) == IF a < 0 THEN -a ELSE a

\* int(num / den) for a float quotient: Python's int() drops the fraction,
\* rounding toward zero whatever the sign
IntTrunc(num, den) ==
    IF (num >= 0) = (den > 0) THEN Abs(num) \div Abs(den)
    ELSE -(Abs(num) \div Abs(den))

IntCeil(num, den) ==
    IF num % den = 0 THEN num \div den ELSE (num \div den) + 1

\* a plausible slip: the optimal size rounded up, as the formula is often stated
get_size_ceil(n, p) == IntCeil(-(n * LogMicro(p)), Ln2SqMicro)

\* m = -(n * math.log(p)) / (math.log(2)**2); return int(m)
get_size(n, p) == IntTrunc(-(n * LogMicro(p)), Ln2SqMicro)

\* a plausible slip: k rounded to the nearest integer, round(k)
get_hash_count_rounded(m, n) ==
    IntTrunc(2 * m * Ln2Micro + Abs(n) * 1000000, 2 * Abs(n) * 1000000)

\* k = (m/n) * math.log(2); return int(k)        (n = 0 raises, see Construct)
get_hash_count(m, n) == IntTrunc(m * Ln2Micro, n * 1000000)

(***************************************************************************)
(* The state: one BloomFilter object, the calls made on it, and the        *)
(* threads that call it.                                                   *)
(***************************************************************************)
VARIABLES
    phase,        \* "init": not constructed; "ready": __init__ returned;
                  \* "failed": __init__ raised
    raised,       \* the exception __init__ raised, or "none"
    items_count,  \* the argument items_count of __init__
    fp_prob,      \* self.fp_prob, in thousandths
    size,         \* self.size
    hash_count,   \* self.hash_count
    bit_array,    \* self.bit_array, a function 0 .. size-1 -> BOOLEAN
    added,        \* history: the items whose add call has returned
    wrote,        \* history: for each such item, the indices that the first
                  \* add of it wrote, round by round
    last,         \* history: the last call that returned, with its result
    threads       \* the position of each thread inside add / check

vars == <<phase, raised, items_count, fp_prob, size, hash_count, bit_array,
          added, wrote, last, threads>>

Threads == {"t1", "t2"}

Idle == [pc |-> "idle"]
NoCall == [op |-> "none"]

\* a plausible slip: setall(1)
AllTrue(m) == [j \in 0 .. (m - 1) |-> TRUE]

\* bitarray(size) followed by setall(0)
AllFalse(m) == [j \in 0 .. (m - 1) |-> FALSE]

Init ==
    /\ phase = "init"
    /\ raised = "none"
    /\ items_count = 0
    /\ fp_prob = 0
    /\ size = 0
    /\ hash_count = 0
    /\ bit_array = AllFalse(0)
    /\ added = {}
    /\ wrote = <<>>
    /\ last = NoCall
    /\ threads = [t \in Threads |-> Idle]

(***************************************************************************)
(* __init__(items_count, fp_prob), statement by statement.  An attribute   *)
(* whose assignment is not reached keeps its Init value; no caller gets    *)
(* the object when __init__ raises.                                        *)
(***************************************************************************)
Construct(n, p) ==
    /\ phase = "init"
    /\ items_count' = n
    /\ fp_prob' = p
    /\ UNCHANGED <<added, wrote, last, threads>>
    /\ IF LogRaises(p)
       THEN \* get_size: math.log(p) raises "math domain error"
            /\ phase' = "failed"
            /\ raised' = "ValueError"
            /\ UNCHANGED <<size, hash_count, bit_array>>
       ELSE /\ size' = get_size(n, p)
            /\ IF n = 0
               THEN \* get_hash_count: m/n divides by zero
                    /\ phase' = "failed"
                    /\ raised' = "ZeroDivisionError"
                    /\ UNCHANGED <<hash_count, bit_array>>
               ELSE /\ hash_count' = get_hash_count(size', n)
                    /\ IF size' < 0
                       THEN \* bitarray(size) refuses a negative length
                            /\ phase' = "failed"
                            /\ raised' = "ValueError"
                            /\ UNCHANGED bit_array
                       ELSE /\ phase' = "ready"
                            /\ raised' = "none"
                            /\ bit_array' = AllFalse(size')

(***************************************************************************)
(* add and check.                                                          *)
(***************************************************************************)
\* mmh3.hash(item, i)
mmh3_hash(item, i) == Murmur3(Utf8(item), i)

\* the hashes the model uses, computed once
HashTable == [item \in Items |-> [i \in 0 .. MaxSeed |-> mmh3_hash(item, i)]]

\* a plausible slip: the remainder of C, whose sign is that of the hash
DigestTruncating(item, i) ==
    IF HashTable[item][i] < 0 THEN -((-HashTable[item][i]) % size)
    ELSE HashTable[item][i] % size

\* digest = mmh3.hash(item, i) % self.size
Digest(item, i) == HashTable[item][i] % size

\* a plausible slip: check seeds its rounds 1 .. hash_count, add 0 .. hash_count-1
CheckDigestShifted(item, i) == Digest(item, i + 1)

\* line 65, in add
AddDigest(item, i) == Digest(item, i)

\* line 81, in check
CheckDigest(item, i) == Digest(item, i)

\* a plausible slip: the store rebuilds the vector around the one bit, so that
\* the bits set before are lost
SetBitLosing(arr, d) == [j \in DOMAIN arr |-> j = d]

\* a plausible slip: the assignment flips the bit instead of setting it
SetBitToggle(arr, d) == [arr EXCEPT ![d] = ~arr[d]]

\* a plausible slip: the bit is appended to the vector, as to a list
SetBitExtending(arr, d) ==
    [j \in 0 .. Cardinality(DOMAIN arr) |-> IF j \in DOMAIN arr THEN arr[j] ELSE TRUE]

\* self.bit_array[digest] = True
SetBit(arr, d) == [arr EXCEPT ![d] = TRUE]

\* a plausible slip: the loop stops one round early, range(hash_count - 1)
RECURSIVE AddFromShort(_, _, _)
AddFromShort(arr, item, i) ==
    IF i >= hash_count - 1 THEN arr
    ELSE AddFromShort(SetBit(arr, AddDigest(item, i)), item, i + 1)

\* the rounds i, i+1, ..., hash_count-1 of add's loop, run on arr
RECURSIVE AddFrom(_, _, _)
AddFrom(arr, item, i) ==
    IF i >= hash_count THEN arr
    ELSE AddFrom(SetBit(arr, AddDigest(item, i)), item, i + 1)

\* add's local list digests when the rounds 0 .. i-1 have run
RECURSIVE AddDigests(_, _)
AddDigests(item, i) ==
    IF i <= 0 THEN <<>>
    ELSE Append(AddDigests(item, i - 1), AddDigest(item, i - 1))

\* a plausible slip: check reads every round and decides at the end
RECURSIVE CheckFromNoShortCircuit(_, _, _)
CheckFromNoShortCircuit(arr, item, i) ==
    IF i >= hash_count THEN [result |-> TRUE, probes |-> i]
    ELSE LET rest == CheckFromNoShortCircuit(arr, item, i + 1)
         IN  [result |-> arr[CheckDigest(item, i)] /\ rest.result,
              probes |-> rest.probes]

\* the rounds i, i+1, ... of check's loop: the value returned and the number
\* of rounds whose bit was read
RECURSIVE CheckFrom(_, _, _)
CheckFrom(arr, item, i) ==
    IF i >= hash_count THEN [result |-> TRUE, probes |-> i]
    ELSE IF arr[CheckDigest(item, i)] = FALSE THEN [result |-> FALSE, probes |-> i + 1]
    ELSE CheckFrom(arr, item, i + 1)

\* the indices that a check of n rounds reads, round by round
CheckReads(item, n) == [k \in 1 .. n |-> CheckDigest(item, k - 1)]

\* the history of indices written, with those of a first add of item
Wrote(item, digests) ==
    IF item \in DOMAIN wrote THEN wrote ELSE wrote @@ (item :> digests)

\* how many times in a row add(item) has now been called, counted up to MaxRepeat
Repeats(item) ==
    IF last.op = "add" /\ last.item = item
    THEN (IF last.repeat < MaxRepeat THEN last.repeat + 1 ELSE MaxRepeat)
    ELSE 1

\* a plausible slip: a check that records what it is asked about
CheckInserting(item) ==
    /\ phase = "ready"
    /\ bit_array' = AddFrom(bit_array, item, 0)
    /\ last' = [op |-> "check", item |-> item,
                result |-> CheckFrom(bit_array, item, 0).result,
                probes |-> CheckFrom(bit_array, item, 0).probes,
                digests |-> CheckReads(item, CheckFrom(bit_array, item, 0).probes)]
    /\ UNCHANGED <<phase, raised, items_count, fp_prob, size, hash_count,
                   added, wrote, threads>>

\* a plausible slip: add tunes the number of rounds to the items held so far
AddRecounting(item) ==
    /\ phase = "ready"
    /\ bit_array' = AddFrom(bit_array, item, 0)
    /\ added' = added \cup {item}
    /\ wrote' = Wrote(item, AddDigests(item, hash_count))
    /\ hash_count' = get_hash_count(size, Cardinality(added'))
    /\ last' = [op |-> "add", item |-> item, repeat |-> Repeats(item),
                once |-> IF last.op = "add" /\ last.item = item
                         THEN last.once ELSE bit_array',
                digests |-> AddDigests(item, hash_count)]
    /\ UNCHANGED <<phase, raised, items_count, fp_prob, size, threads>>

\* add(item), as one call run from its first statement to its return
Add(item) ==
    /\ phase = "ready"
    /\ bit_array' = AddFrom(bit_array, item, 0)
    /\ added' = added \cup {item}
    /\ wrote' = Wrote(item, AddDigests(item, hash_count))
    /\ last' = [op |-> "add", item |-> item, repeat |-> Repeats(item),
                once |-> IF last.op = "add" /\ last.item = item
                         THEN last.once ELSE bit_array',
                digests |-> AddDigests(item, hash_count)]
    /\ UNCHANGED <<phase, raised, items_count, fp_prob, size, hash_count, threads>>

\* check(item), as one call run from its first statement to its return
Check(item) ==
    /\ phase = "ready"
    /\ last' = [op |-> "check", item |-> item,
                result |-> CheckFrom(bit_array, item, 0).result,
                probes |-> CheckFrom(bit_array, item, 0).probes,
                digests |-> CheckReads(item, CheckFrom(bit_array, item, 0).probes)]
    /\ UNCHANGED <<phase, raised, items_count, fp_prob, size, hash_count,
                   bit_array, added, wrote, threads>>

ItemsCounts == (-NegItemsCount) .. MaxItemsCount

NewFilter == \E n \in ItemsCounts, p \in FpProbs : Construct(n, p)
CallAdd == \E item \in Items : Add(item)
CallCheck == \E item \in Items : Check(item)

Next == NewFilter \/ CallAdd \/ CallCheck

Spec == Init /\ [][Next]_vars

(***************************************************************************)
(* Threads.  The same two methods, one loop round at a time, for callers   *)
(* that share the filter without a lock.  A round of add is one step: the  *)
(* store self.bit_array[digest] = True is taken to be atomic.              *)
(***************************************************************************)
ConcItems == {"abound", "abounds", "abundant"}
ConcFpProbs == {50, 500}

NewSharedFilter ==
    \E n \in 1 .. MaxConcItemsCount, p \in ConcFpProbs : Construct(n, p)

Frame == UNCHANGED <<phase, raised, items_count, fp_prob, size, hash_count>>

\* add(item) is entered: digests = [], the loop is at round 0
AddCall(t, item) ==
    /\ phase = "ready"
    /\ threads[t].pc = "idle"
    /\ threads' = [threads EXCEPT ![t] =
                      [pc |-> "add", item |-> item, i |-> 0, digests |-> <<>>]]
    /\ UNCHANGED <<bit_array, added, wrote, last>>
    /\ Frame

\* one round of add's loop: lines 65, 66 and 69
AddRound(t) ==
    /\ threads[t].pc = "add"
    /\ threads[t].i < hash_count
    /\ LET digest == AddDigest(threads[t].item, threads[t].i)
       IN  /\ bit_array' = SetBit(bit_array, digest)
           /\ threads' = [threads EXCEPT ![t].i = @ + 1,
                                         ![t].digests = Append(@, digest)]
    /\ UNCHANGED <<added, wrote, last>>
    /\ Frame

\* range(self.hash_count) is exhausted: add returns None
AddReturn(t) ==
    /\ threads[t].pc = "add"
    /\ threads[t].i >= hash_count
    /\ added' = added \cup {threads[t].item}
    /\ wrote' = Wrote(threads[t].item, threads[t].digests)
    /\ threads' = [threads EXCEPT ![t] = Idle]
    /\ UNCHANGED <<bit_array, last>>
    /\ Frame

\* check(item) is entered; after: had add(item) already returned?
CheckCall(t, item) ==
    /\ phase = "ready"
    /\ threads[t].pc = "idle"
    /\ threads' = [threads EXCEPT ![t] =
                      [pc |-> "check", item |-> item, i |-> 0,
                       after |-> item \in added]]
    /\ UNCHANGED <<bit_array, added, wrote, last>>
    /\ Frame

\* one round of check's loop: lines 81 and 82, with the return of line 85
CheckRound(t) ==
    /\ threads[t].pc = "check"
    /\ threads[t].i < hash_count
    /\ IF bit_array[CheckDigest(threads[t].item, threads[t].i)] = FALSE
       THEN threads' = [threads EXCEPT ![t] =
                           [pc |-> "ret", item |-> threads[t].item,
                            result |-> FALSE, after |-> threads[t].after]]
       ELSE threads' = [threads EXCEPT ![t].i = @ + 1]
    /\ UNCHANGED <<bit_array, added, wrote, last>>
    /\ Frame

\* range(self.hash_count) is exhausted: the return True of line 86
CheckReturn(t) ==
    /\ threads[t].pc = "check"
    /\ threads[t].i >= hash_count
    /\ threads' = [threads EXCEPT ![t] =
                      [pc |-> "ret", item |-> threads[t].item,
                       result |-> TRUE, after |-> threads[t].after]]
    /\ UNCHANGED <<bit_array, added, wrote, last>>
    /\ Frame

\* the caller has the value of check and goes on
Resume(t) ==
    /\ threads[t].pc = "ret"
    /\ last' = [op |-> "check", item |-> threads[t].item,
                result |-> threads[t].result]
    /\ threads' = [threads EXCEPT ![t] = Idle]
    /\ UNCHANGED <<bit_array, added, wrote>>
    /\ Frame

ThreadCallsAdd == \E t \in Threads, item \in ConcItems : AddCall(t, item)
ThreadAdds == \E t \in Threads : AddRound(t)
ThreadLeavesAdd == \E t \in Threads : AddReturn(t)
ThreadCallsCheck == \E t \in Threads, item \in ConcItems : CheckCall(t, item)
ThreadChecks == \E t \in Threads : CheckRound(t)
ThreadLeavesCheck == \E t \in Threads : CheckReturn(t)
ThreadResumes == \E t \in Threads : Resume(t)

NextConc ==
    \/ NewSharedFilter
    \/ ThreadCallsAdd
    \/ ThreadAdds
    \/ ThreadLeavesAdd
    \/ ThreadCallsCheck
    \/ ThreadChecks
    \/ ThreadLeavesCheck
    \/ ThreadResumes

SpecConc == Init /\ [][NextConc]_vars

(***************************************************************************)
(* Properties.                                                             *)
(***************************************************************************)
Ready == phase = "ready"

\* what check(item) returns in the current state
Answer(item) == CheckFrom(bit_array, item, 0).result

\* the rounds of the filter
Rounds == 0 .. (hash_count - 1)

\* C1 -- no false negatives: once add(x) has returned, check(x) returns True
\* in every later state, whatever else has been added: the check that was
\* last made of an added item returned True, and so would a check made now.
C1_NoFalseNegatives ==
    Ready =>
        /\ \A x \in added : Answer(x) = TRUE
        /\ (last.op = "check" /\ last.item \in added) => last.result = TRUE

C1_Witness ==
    /\ Ready /\ hash_count >= 1
    /\ Cardinality(added) >= 2
    /\ last.op = "check" /\ last.item \in added /\ last.result = TRUE

\* C2 -- empty filter: in a constructed filter to which nothing has been
\* added, check(x) returns False for every item x.
C2_EmptyFilterAnswersFalse ==
    (Ready /\ added = {}) => \A x \in Items : Answer(x) = FALSE

\* add(item) run n times in a row on arr
RECURSIVE RepeatAdd(_, _, _)
RepeatAdd(arr, item, n) ==
    IF n = 0 THEN arr ELSE AddFrom(RepeatAdd(arr, item, n - 1), item, 0)

\* C3 -- idempotence of add: after add(x) has been called N >= 1 times in a
\* row the bit vector is the one the first of those calls left, and from the
\* current state N further calls of add(x) give what one call gives.
C3_AddIdempotent ==
    Ready =>
        /\ last.op = "add" => bit_array = last.once
        /\ \A x \in Items, n \in 1 .. MaxRepeat :
              RepeatAdd(bit_array, x, n) = AddFrom(bit_array, x, 0)

C3_Witness ==
    /\ Ready /\ hash_count >= 1
    /\ Cardinality(added) >= 2
    /\ last.op = "add" /\ last.repeat >= 2

\* C4 -- result of check: check(x) returns True exactly when the bit of every
\* round is set; when it returns False it has read the rounds up to the first
\* one whose bit is clear and no later round.
C4_CheckResult ==
    (Ready /\ last.op = "check") =>
        LET bit(i) == bit_array[Digest(last.item, i)]
        IN  /\ last.result = (\A i \in Rounds : bit(i))
            /\ last.result = TRUE => last.probes = hash_count
            /\ last.result = FALSE =>
                  /\ last.probes \in 1 .. hash_count
                  /\ bit(last.probes - 1) = FALSE
                  /\ \A i \in 0 .. (last.probes - 2) : bit(i)

C4_Witness ==
    /\ Ready
    /\ last.op = "check" /\ last.result = FALSE
    /\ last.probes > 1 /\ last.probes < hash_count

\* the arguments the constructor is to refuse
InvalidParameters(n, p) == n <= 0 \/ p <= 0 \/ p >= 1000

\* the exceptions accepted as the InvalidParameter condition: every one that
\* __init__ can raise
InvalidParameterErrors == {"ValueError", "ZeroDivisionError"}

\* C5 -- constructor validation: a construction with items_count <= 0 or
\* with fp_prob outside (0, 1), p = 0 and p = 1 included, fails at once with
\* an InvalidParameter error and gives no filter.
C5_InvalidParametersRefused ==
    (phase # "init" /\ InvalidParameters(items_count, fp_prob)) =>
        (phase = "failed" /\ raised \in InvalidParameterErrors)

\* C6 -- positive dimensions: a filter constructed with items_count > 0 and
\* 0 < fp_prob < 1 has size >= 1 and hash_count >= 1, in every state.
C6_PositiveDimensions ==
    (Ready /\ ~InvalidParameters(items_count, fp_prob)) =>
        (size >= 1 /\ hash_count >= 1)

\* C7 -- monotone bits: no step changes a bit from True to False.
C7_MonotoneBits ==
    [][\A j \in DOMAIN bit_array :
          bit_array[j] => (j \in DOMAIN bit_array' /\ bit_array'[j])]_vars

C7_Witness ==
    /\ Ready
    /\ Cardinality(added) >= 2
    /\ last.op = "check"
    /\ \E j \in DOMAIN bit_array : bit_array[j]
    /\ \E j \in DOMAIN bit_array : ~bit_array[j]

\* C8 -- check is read-only: a step in which a call of check returns, True or
\* False, leaves bit_array, size, hash_count and fp_prob as they were.
C8_CheckReadOnly ==
    [][last'.op = "check" => UNCHANGED <<bit_array, size, hash_count, fp_prob>>]_vars

C8_Witness ==
    /\ Ready /\ hash_count >= 1
    /\ added # {}
    /\ last.op = "check" /\ last.item \notin added /\ last.result = TRUE

\* the bit vectors that running add once for each item of S, one call after
\* another in any order, can leave, starting from arr
RECURSIVE SeqResults(_, _)
SeqResults(S, arr) ==
    IF S = {} THEN {arr}
    ELSE UNION {SeqResults(S \ {x}, AddFrom(arr, x, 0)) : x \in S}

\* the items of the add calls that have run all their rounds
RoundsDone ==
    {threads[t].item : t \in {u \in Threads : threads[u].pc = "add"}}

\* C9 -- concurrent adds: when the rounds of all add calls have run, however
\* they were interleaved, the bit vector is the one that the same adds leave
\* when run one after another; and a check(x) entered after add(x) returned
\* returns True, whatever the other threads are doing.
C9_ConcurrentAdds ==
    Ready =>
        /\ (\A t \in Threads : threads[t].pc = "add" => threads[t].i >= hash_count)
              => SeqResults(added \cup RoundsDone, AllFalse(size)) = {bit_array}
        /\ \A t \in Threads :
              (threads[t].pc = "ret" /\ threads[t].after) => threads[t].result = TRUE

C9_Witness ==
    /\ Ready /\ hash_count >= 1
    /\ threads["t1"].pc = "add" /\ threads["t1"].i = hash_count
    /\ threads["t2"].pc = "add" /\ threads["t2"].i = hash_count
    /\ threads["t1"].item # threads["t2"].item
    /\ added # {}

\* C10 -- bit-array sizing: for items_count > 0 and 0 < fp_prob < 1 the size
\* is -(n * ln p) / (ln 2)^2 with its fraction dropped (the largest integer
\* not above it), the bit vector has that length, and n = 20, p = 0.05 give 124.
C10_SizeTruncated ==
    (Ready /\ ~InvalidParameters(items_count, fp_prob)) =>
        /\ size * Ln2SqMicro <= -(items_count * LogMicro(fp_prob))
        /\ -(items_count * LogMicro(fp_prob)) < (size + 1) * Ln2SqMicro
        /\ DOMAIN bit_array = 0 .. (size - 1)
        /\ (items_count = 20 /\ fp_prob = 50) => size = 124

C10_Witness ==
    /\ Ready
    /\ items_count = 20 /\ fp_prob = 50
    /\ size = 124 /\ Cardinality(DOMAIN bit_array) = 124

\* C11 -- effect of add: when add(x) returns, the bit at hash(x, i) mod size
\* is True for every round i, and every bit at another index is as it was
\* before the call.
C11_AddEffect ==
    [][last'.op = "add" =>
          LET own == {HashTable[last'.item][i] % size : i \in Rounds}
          IN  /\ DOMAIN bit_array' = DOMAIN bit_array
              /\ \A j \in own : bit_array'[j] = TRUE
              /\ \A j \in DOMAIN bit_array \ own : bit_array'[j] = bit_array[j]]_vars

C11_Witness ==
    /\ Ready /\ hash_count >= 1
    /\ last.op = "add"
    /\ \E j \in DOMAIN bit_array :
          /\ bit_array[j]
          /\ j \notin {HashTable[last.item][i] % size : i \in Rounds}
    /\ \E j \in DOMAIN bit_array : ~bit_array[j]

\* d is the residue of the hash h modulo size that lies in 0 .. size-1
InRangeResidue(d, h) == d \in 0 .. (size - 1) /\ (h - d) % size = 0

\* C12 -- indices in range: every index that add writes or check reads is
\* hash(item, i) mod size and lies in 0 .. size-1, for every item and round,
\* also when the signed hash is negative; no access is out of bounds.
C12_IndicesInRange ==
    Ready =>
        /\ \A x \in Items, i \in Rounds :
              /\ InRangeResidue(AddDigest(x, i), HashTable[x][i])
              /\ InRangeResidue(CheckDigest(x, i), HashTable[x][i])
              /\ AddDigest(x, i) \in DOMAIN bit_array
              /\ CheckDigest(x, i) \in DOMAIN bit_array
        /\ last.op \in {"add", "check"} =>
              \A k \in 1 .. Len(last.digests) :
                 /\ InRangeResidue(last.digests[k], HashTable[last.item][k - 1])
                 /\ last.digests[k] \in DOMAIN bit_array

C12_Witness ==
    /\ Ready
    /\ last.op = "check" /\ last.probes >= 2
    /\ HashTable[last.item][last.probes - 1] < 0
    /\ \E x \in added : \E i \in Rounds : HashTable[x][i] < 0

\* C13 -- add and check probe the same positions: the indices that check(x)
\* reads are, round by round, the indices that add(x) writes (all of them
\* when check does not stop early, the first of them when it does), and every
\* call of add(x) writes the sequence that the first one wrote.
C13_SamePositions ==
    Ready =>
        /\ \A x \in Items :
              CheckReads(x, hash_count) = AddDigests(x, hash_count)
        /\ last.op = "add" => last.digests = wrote[last.item]
        /\ (last.op = "check" /\ last.item \in added) =>
              /\ last.result = TRUE
              /\ last.digests = wrote[last.item]
        /\ last.op = "check" =>
              last.digests = SubSeq(AddDigests(last.item, hash_count), 1, last.probes)

C13_Witness ==
    /\ Ready /\ hash_count >= 2
    /\ Cardinality(added) >= 2
    /\ last.op = "check" /\ last.item \in added
    /\ last.digests = wrote[last.item]
    /\ Len(last.digests) = hash_count

\* C14 -- fixed length: in every state reached from construction by add and
\* check calls the bit vector has the length that the constructor computed;
\* no step makes it longer or shorter.
C14_FixedLength ==
    /\ [](Ready => /\ DOMAIN bit_array = 0 .. (size - 1)
                   /\ size = get_size(items_count, fp_prob))
    /\ [][Ready => DOMAIN bit_array' = DOMAIN bit_array]_vars

C14_Witness ==
    /\ Ready /\ size >= 2
    /\ Cardinality(added) >= 3
    /\ last.op = "check"
    /\ Cardinality(DOMAIN bit_array) = size

\* C15 -- immutable parameters: a step of add or check leaves fp_prob, size
\* and hash_count unchanged, so that they keep the values the constructor
\* assigned from its arguments.
C15_ImmutableParameters ==
    /\ [](Ready => /\ size = get_size(items_count, fp_prob)
                   /\ hash_count = get_hash_count(size, items_count))
    /\ [][Ready => UNCHANGED <<fp_prob, size, hash_count>>]_vars

C15_Witness ==
    /\ Ready /\ hash_count >= 1
    /\ Cardinality(added) >= 2
    /\ last.op = "check" /\ last.result = FALSE
    /\ hash_count = get_hash_count(size, items_count)

\* C16 -- hash-round count: for items_count > 0 and 0 < fp_prob < 1,
\* hash_count is (size / n) * ln 2 with its fraction dropped, size being the
\* integer length of the bit vector; n = 20, p = 0.05 (size 124) give 4.
C16_HashCountTruncated ==
    (Ready /\ ~InvalidParameters(items_count, fp_prob)) =>
        /\ hash_count * items_count * 1000000 <= size * Ln2Micro
        /\ size * Ln2Micro < (hash_count + 1) * items_count * 1000000
        /\ (items_count = 20 /\ fp_prob = 50) => (size = 124 /\ hash_count = 4)

C16_Witness ==
    /\ Ready
    /\ items_count = 20 /\ fp_prob = 50
    /\ hash_count = 4
    /\ added # {}

\* the indices that the adds of the items of S write
Covered(S) == {HashTable[s][i] % size : s \in S, i \in Rounds}

\* C17 -- exact content of the bit vector: after adds of the items of added,
\* bit j is True exactly when j is hash(s, i) mod size for an added s and a
\* round i; so a check of an item never added returns True only when every
\* one of its indices is among those of the added items.
C17_ExactContent ==
    Ready =>
        /\ \A j \in DOMAIN bit_array : bit_array[j] = (j \in Covered(added))
        /\ \A x \in Items \ added : Answer(x) = (Covered({x}) \subseteq Covered(added))
        /\ (last.op = "check" /\ last.item \notin added /\ last.result = TRUE) =>
              Covered({last.item}) \subseteq Covered(added)

C17_Witness ==
    /\ Ready /\ hash_count >= 1
    /\ Cardinality(added) >= 2
    /\ last.op = "check" /\ last.item \notin added /\ last.result = TRUE
    /\ \E j \in DOMAIN bit_array : ~bit_array[j]

\* C18 -- commutativity of add: from the current state add(x) then add(y)
\* leaves the bit vector that add(y) then add(x) leaves, and the bit vector
\* reached is the one that the set of added items determines, in whatever
\* order and however often they were added.
C18_AddCommutes ==
    Ready =>
        /\ \A x, y \in Items :
              AddFrom(AddFrom(bit_array, x, 0), y, 0)
                 = AddFrom(AddFrom(bit_array, y, 0), x, 0)
        /\ SeqResults(added, AllFalse(size)) = {bit_array}

C18_Witness ==
    /\ Ready /\ hash_count >= 1
    /\ Cardinality(added) >= 3
    /\ last.op = "add" /\ last.repeat >= 2
    /\ \E j \in DOMAIN bit_array : ~bit_array[j]

\* C19 -- monotone answers: for every item, added or not, once check(x)
\* returns True it returns True in every later state; no step of add or check
\* turns an answer from True to False.
C19_MonotoneAnswers ==
    [][Ready => \A x \in Items : Answer(x) => Answer(x)']_vars

C19_Witness ==
    /\ Ready /\ hash_count >= 1
    /\ Cardinality(added) >= 2
    /\ last.op = "add"
    /\ \E x \in Items \ added : Answer(x) = TRUE
    /\ \E x \in added \ {last.item} : Answer(x) = TRUE
    /\ \E j \in DOMAIN bit_array : ~bit_array[j]

=============================================================================
